---- MODULE Spec2Model ----
(***************************************************************************)
(* Activation arbitration, capture session and reminder scheduler of the   *)
(* Raspberry Pi voice assistant (src/src/assistant.py,                     *)
(* src/src/modules/activation.py, src/src/modules/stt.py,                  *)
(* src/src/services/reminders.py).                                         *)
(*                                                                         *)
(* Seven specifications share the variables:                               *)
(*   Spec          the foreground session loop (VoiceAssistant.start):     *)
(*                 wait_for_activation, the wake-word watcher threads,     *)
(*                 the audio callback and queue, listen(), and shutdown.   *)
(*   SpecCapture   the session loop with both activation methods off:      *)
(*                 every round is a capture session (listen()).            *)
(*   SpecButton    the session loop with the button as the only source,    *)
(*                 driven by the edges on the button pin.                  *)
(*   SpecLed       the session loop with the button as the only source     *)
(*                 and an LED pin, with the _blink_led threads.            *)
(*   SpecReminders the reminder store, check_reminders run by the          *)
(*                 _reminder_checker thread and add_reminder run by the    *)
(*                 session thread on the same connection and cursor.       *)
(*   SpecStore     the same statements on the store while the clock        *)
(*                 stands still.                                           *)
(*   SpecParser    parse_reminder_from_text and _handle_reminder on        *)
(*                 bounded command texts.                                  *)
(***************************************************************************)
EXTENDS Integers, Sequences, FiniteSets, TLC

VARIABLES
    \* ---- shared
    running,             \* VoiceAssistant.running
    clock,               \* time.time() / datetime.now(), in model ticks
    \* ---- ActivationManager configuration and flags
    gpio_enabled,        \* ActivationManager.gpio_enabled
    wake_word_enabled,   \* ActivationManager.wake_word_enabled
    has_keywords,        \* wake_word_config['keywords'] is not empty
    handlers_installed,  \* main() installed signal_handler for SIGINT/SIGTERM
    button_pressed,      \* ActivationManager.button_pressed
    wake_word_detected,  \* ActivationManager.wake_word_detected
    \* ---- the main thread
    main_pc,             \* where the main thread is
    timeout,             \* wait_for_activation's timeout argument
    elapsed,             \* wait_for_activation: time.time() - start_time
    activation_type,     \* what wait_for_activation returned to _main_loop
    \* ---- watcher threads (_wake_word_listener), counted by position
    watchers,
    \* ---- SpeechRecognizer
    audio_queue,         \* SpeechRecognizer.audio_queue: who captured each frame
    silence_chunks,      \* listen(): silence_chunks
    recorded_chunks,     \* listen(): recorded_chunks
    max_chunks,          \* listen(): max_chunks
    user_text,           \* what listen() returned
    ended_by,            \* how the last listen() left its loop
    \* ---- history of the current arbitration round / session
    slept,               \* the poll loop slept in this round
    both_at_poll,        \* both flags were set when the loop polled the button flag
    cancelled_in_wait,   \* a shutdown signal arrived while the round was polling
    stale_read,          \* listen() consumed a frame a watcher's stream captured
    shutdown_requested,  \* a shutdown was requested and no arbitration round began since
    \* ---- the button's edge detection (GPIO.add_event_detect, bouncetime)
    bounce_time,         \* gpio_config['bounce_time'], in model ticks
    since_edge,          \* time since the edge that last ran _button_callback
    bursts,              \* edges that came outside the window of the one before
    bounced,             \* an edge came inside the window of the one before
    button_events,       \* 'button' activations returned since the first edge
    \* ---- the indicator (set_led_state and the _blink_led threads)
    led_pin,             \* gpio_config.get('led_pin') is set
    led_level,           \* the level last written to the LED pin
    led_state,           \* the argument of the last set_led_state call
    led_outcome,         \* how the last set_led_state call ended
    blinkers,            \* live _blink_led threads, by the writes each has left
    \* ---- the reminder store: one sqlite3 connection and one cursor, shared
    db,                  \* the committed (durable) reminders table, row i has id i
    view,                \* the table as the connection sees it: db and its open transaction
    cursor_rows,         \* the result set waiting on self.cursor
    \* ---- the reminder thread (_reminder_checker running check_reminders)
    rpc,                 \* where the reminder thread is
    rows,                \* check_reminders: the fetched rows still to go through
    reminders,           \* check_reminders: the list built so far
    due_reminders,       \* _reminder_checker: the reminders still to speak
    \* ---- the session thread inside add_reminder
    spc,
    \* ---- history
    failures,            \* store failures, notifier failures and crashes injected so far
    returned,            \* how many times check_reminders returned each id
    poll_due,            \* the due unnotified ids when the last poll's SELECT ran
    poll_result,         \* what the last check_reminders call returned
    poll_ok,             \* the last check_reminders call met no failure
    failed_batch,        \* the rows the last failed poll had fetched, until a poll succeeds
    disturbed,           \* a failure or an add_reminder step since the last SELECT
    streak,              \* undisturbed polls completed in a row at one clock value
    streak_first,        \* how many reminders the first poll of the streak returned
    lastrowid,           \* the id add_reminder's INSERT produced (0: no call under way)
    acked,               \* the id for which the latest add_reminder call returned success
    text,                \* _handle_reminder: the command text, words and spaces
    parse_now,           \* parse_reminder_from_text: datetime.now(), in half minutes
    remind_time,         \* the parsed time, in half minutes (None: no rule matched)
    reminder_text,       \* the parsed reminder text, words and spaces
    ppc                  \* where _handle_reminder stands

shared_vars == <<running, clock>>

cfg_vars == <<gpio_enabled, wake_word_enabled, has_keywords, handlers_installed>>

flag_vars == <<button_pressed, wake_word_detected>>

\* locals and history of one wait_for_activation call
wait_vars == <<timeout, elapsed, slept, both_at_poll, cancelled_in_wait>>

\* locals and history of one listen() call
listen_vars == <<silence_chunks, recorded_chunks, max_chunks, ended_by, stale_read>>

\* the edge detection of the button pin and its history
edge_vars == <<bounce_time, since_edge, bursts, bounced, button_events>>

\* what a set_led_state call or a blink thread can change
led_out == <<led_level, led_state, led_outcome, blinkers>>

led_vars == <<led_pin, led_out>>

arb_vars == <<cfg_vars, flag_vars, wait_vars, listen_vars, main_pc,
              activation_type, user_text, watchers, audio_queue,
              edge_vars, led_vars, shutdown_requested>>

store_vars == <<db, view, cursor_rows>>

rem_vars == <<store_vars, rpc, rows, reminders, due_reminders, spc, failures,
              returned, poll_due, poll_result, poll_ok, failed_batch,
              disturbed, streak, streak_first, lastrowid, acked>>

\* state of one _handle_reminder call
parse_vars == <<text, parse_now, remind_time, reminder_text, ppc>>

vars == <<shared_vars, arb_vars, rem_vars, parse_vars>>

(***************************************************************************)
(* Bounds of the model.                                                    *)
(***************************************************************************)
\* the longest time a round's elapsed time is followed
MaxElapsed == 2
\* frames the audio queue holds before the callback stops adding
MaxQueue == 2
\* watcher threads alive at once
MaxWatchers == 2
\* frames with speech the source emits in one capture session
MaxSpeech == 2
\* the largest timeout a caller passes
MaxTimeout == 1
\* max_silence_chunks, from performance.silence_timeout
MaxSilence == 2
\* the largest frame budget (max_chunks) a session is given
MaxBudget == 2
\* the longest debounce window (bounce_time)
MaxBounce == 2
\* bursts of button edges followed in one run
MaxBursts == 2
\* _blink_led threads alive at a time
MaxBlinkers == 2

\* reminders the store holds
MaxReminders == 2
\* the clock of the reminder store stops here
MaxClock == 1
\* store and notifier failures injected in one run
MaxFailures == 1

\* timeout=None, max_chunks = None
None == -1

Timeouts == {None} \cup (0..MaxTimeout)

WatcherStates == {"start", "listen", "matched"}

NoWatchers == [s \in WatcherStates |-> 0]

WatchersAlive == watchers["start"] + watchers["listen"] + watchers["matched"]

PollPcs == {"chk_button", "chk_wake", "chk_timeout"}

ExitedPcs == {"done", "exited", "crashed"}

Alive == main_pc \notin ExitedPcs

\* activation.py 190, 198, 212-216: a blink thread writes the pin 2 * count
\* times, HIGH and LOW in turn; count is 1 for 'waiting', 3 for 'listening'
BlinkStages == 1..6

NoBlinkers == [r \in BlinkStages |-> 0]

\* Python truthiness of a timeout or a frame budget: None and 0 are falsy
Truthy(x) == x # None /\ x # 0

\* the locals of a wait_for_activation call that is not running
WaitIdle ==
    /\ timeout' = None
    /\ elapsed' = 0
    /\ slept' = FALSE
    /\ both_at_poll' = FALSE
    /\ cancelled_in_wait' = FALSE

\* the locals of a listen() call that is not running
ListenIdle ==
    /\ silence_chunks' = 0
    /\ recorded_chunks' = 0
    /\ max_chunks' = None
    /\ ended_by' = "none"
    /\ stale_read' = FALSE

\* activation.py 62-64: _setup_gpio wrote LOW; set_led_state was not called
LedIdle ==
    /\ led_level = "LOW"
    /\ led_state = "none"
    /\ led_outcome = "none"
    /\ blinkers = NoBlinkers

\* no edge was seen on the button pin yet
EdgeIdle ==
    /\ since_edge = MaxBounce + 1
    /\ bursts = 0
    /\ bounced = FALSE
    /\ button_events = 0

(***************************************************************************)
(* Init: the state when VoiceAssistant.start() reaches `while self.running`*)
(***************************************************************************)
ArbInit ==
    /\ gpio_enabled \in BOOLEAN
    /\ wake_word_enabled \in BOOLEAN
    /\ has_keywords \in (IF wake_word_enabled THEN BOOLEAN ELSE {TRUE})
    /\ handlers_installed \in BOOLEAN
    /\ button_pressed = FALSE
    /\ wake_word_detected = FALSE
    /\ main_pc = "loop"
    /\ timeout = None
    /\ elapsed = 0
    /\ slept = FALSE
    /\ both_at_poll = FALSE
    /\ cancelled_in_wait = FALSE
    /\ activation_type = "none"
    /\ watchers = NoWatchers
    /\ audio_queue = <<>>
    /\ silence_chunks = 0
    /\ recorded_chunks = 0
    /\ max_chunks = None
    /\ ended_by = "none"
    /\ stale_read = FALSE
    /\ user_text = "none"
    /\ shutdown_requested = FALSE
    /\ EdgeIdle
    /\ LedIdle

\* the reminder store and its threads at start-up, on a new database: the
\* table is empty and no transaction is open
RemInit ==
    /\ db = <<>>
    /\ view = <<>>
    /\ cursor_rows = <<>>
    /\ rpc = "loop"
    /\ rows = <<>>
    /\ reminders = <<>>
    /\ due_reminders = <<>>
    /\ spc = "idle"
    /\ failures = 0
    /\ returned = [i \in 1..MaxReminders |-> 0]
    /\ poll_due = {}
    /\ poll_result = <<>>
    /\ poll_ok = TRUE
    /\ failed_batch = {}
    /\ disturbed = TRUE
    /\ streak = 0
    /\ streak_first = 0
    /\ lastrowid = 0
    /\ acked = {}

\* no reminder command is being handled
ParseIdle ==
    /\ text = <<>>
    /\ parse_now = 0
    /\ remind_time = None
    /\ reminder_text = <<>>
    /\ ppc = "idle"

Init ==
    /\ running = TRUE
    /\ clock = 0
    /\ ArbInit
    /\ bounce_time = MaxBounce
    /\ led_pin = FALSE
    /\ RemInit
    /\ ParseIdle

\* the process ends: its daemon threads and its queue end with it
ProcessExit ==
    /\ watchers' = NoWatchers
    /\ audio_queue' = <<>>
    /\ blinkers' = NoBlinkers

(***************************************************************************)
(* ActivationManager.set_led_state and _blink_led                          *)
(***************************************************************************)
BlinkersAlive == blinkers[1] + blinkers[2] + blinkers[3] + blinkers[4]
                 + blinkers[5] + blinkers[6]

\* activation.py 181, 204: the level 'off' and 'processing' write
Level(state) == IF state = "off" THEN "LOW" ELSE "HIGH"

\* activation.py 190, 198: the writes of the blink thread of a state
Writes(state) == IF state = "waiting" THEN 2 ELSE 6

\* a variant of LedOutcome without the try block: the failure reaches the caller
LedOutcome_Unguarded(state, fail) ==
    IF fail THEN "raised"
    ELSE IF state \in {"waiting", "listening"} THEN "blinking"
    ELSE "written"

\* activation.py 179-207: GPIO.output or the thread's start fails (`fail`) and
\* `except Exception` logs it; else 'waiting' and 'listening' start a blink
\* thread and 'off' and 'processing' write the pin
LedOutcome(state, fail) ==
    IF fail THEN "logged"
    ELSE IF state \in {"waiting", "listening"} THEN "blinking"
    ELSE "written"

\* activation.py 165-207: one call of set_led_state.  Without GPIO or without
\* an LED pin it returns at once (172-177).  The blink thread is started and
\* the call returns; the thread's writes are steps of its own (BlinkStep).
set_led_state(state) ==
    /\ led_state' = state
    /\ IF ~gpio_enabled \/ ~led_pin
       THEN /\ led_outcome' = "skipped"
            /\ UNCHANGED <<led_level, blinkers>>
       ELSE \E fail \in BOOLEAN :
              /\ led_outcome' = LedOutcome(state, fail)
              /\ IF led_outcome' = "written"
                 THEN /\ led_level' = Level(state)
                      /\ UNCHANGED blinkers
                 ELSE IF led_outcome' = "blinking"
                 THEN /\ BlinkersAlive < MaxBlinkers
                      /\ blinkers' = [blinkers EXCEPT ![Writes(state)] = @ + 1]
                      /\ UNCHANGED led_level
                 ELSE UNCHANGED <<led_level, blinkers>>

\* where the caller of set_led_state goes on: an exception leaving
\* set_led_state would leave _main_loop and start() (assistant.py 207-214)
Then(pc) == IF led_outcome' = "raised" THEN "crashed" ELSE pc

\* activation.py 209-218: a blink thread writes the pin, HIGH and LOW in turn
\* (the sleeps lie between the steps); a failing GPIO.output ends the thread
BlinkStep(r, fail) ==
    /\ Alive
    /\ blinkers[r] > 0
    /\ IF fail
       THEN /\ blinkers' = [blinkers EXCEPT ![r] = @ - 1]
            /\ UNCHANGED led_level
       ELSE /\ led_level' = IF r % 2 = 0 THEN "HIGH" ELSE "LOW"
            /\ blinkers' = [q \in BlinkStages |->
                               IF q = r THEN blinkers[q] - 1
                               ELSE IF q = r - 1 THEN blinkers[q] + 1
                               ELSE blinkers[q]]
    /\ UNCHANGED <<shared_vars, cfg_vars, flag_vars, wait_vars, listen_vars,
                   main_pc, activation_type, user_text, watchers, audio_queue,
                   rem_vars, parse_vars, edge_vars, led_pin, led_state,
                   led_outcome, shutdown_requested>>

(***************************************************************************)
(* VoiceAssistant.start: while self.running: self._main_loop(); finally    *)
(* self.stop()                                                             *)
(***************************************************************************)
StartLoop ==
    /\ main_pc = "loop"
    /\ IF running
       THEN /\ main_pc' = "wait_entry"
            /\ UNCHANGED <<running, watchers, audio_queue, blinkers>>
       ELSE /\ main_pc' = "done"
            /\ running' = FALSE
            /\ ProcessExit
    /\ UNCHANGED <<clock, cfg_vars, flag_vars, wait_vars, listen_vars,
                   activation_type, user_text,
                   rem_vars, parse_vars, edge_vars, led_pin, led_level,
                   led_state, led_outcome, shutdown_requested>>

(***************************************************************************)
(* ActivationManager.wait_for_activation                                   *)
(***************************************************************************)
\* a mutant of AllDisabled: the second `not` is lost
AllDisabled_LostNot(gpio, wake) == ~gpio /\ wake

\* `if not self.gpio_enabled and not self.wake_word_enabled`
AllDisabled(gpio, wake) == ~gpio /\ ~wake

\* lines 96-116: start_time, the 'auto' return, set_led_state('waiting'), the
\* watcher thread's start.
\* _main_loop always passes stt_engine=self.stt.
WaitEntry(t) ==
    /\ main_pc = "wait_entry"
    /\ timeout' = t
    /\ elapsed' = 0
    /\ slept' = FALSE
    /\ both_at_poll' = FALSE
    /\ cancelled_in_wait' = FALSE
    /\ shutdown_requested' = FALSE
    /\ IF AllDisabled(gpio_enabled, wake_word_enabled)
       THEN /\ activation_type' = "auto"
            /\ main_pc' = "after_wait"
            /\ UNCHANGED <<watchers, led_out>>
       ELSE /\ activation_type' = "none"
            /\ set_led_state("waiting")
            /\ main_pc' = Then("chk_button")
            /\ IF wake_word_enabled
               THEN /\ WatchersAlive < MaxWatchers
                    /\ watchers' = [watchers EXCEPT !["start"] = @ + 1]
               ELSE UNCHANGED watchers
    /\ UNCHANGED <<shared_vars, cfg_vars, flag_vars, listen_vars, user_text,
                   audio_queue,
                   rem_vars, parse_vars, edge_vars, led_pin>>

\* a mutant of ChkButton: the wake-word flag is looked at before the button flag
ChkButton_WakeFirst ==
    /\ main_pc = "chk_button"
    /\ both_at_poll' = (both_at_poll \/ (button_pressed /\ wake_word_detected))
    /\ IF wake_word_detected
       THEN /\ wake_word_detected' = FALSE
            /\ activation_type' = "wake_word"
            /\ main_pc' = "after_wait"
            /\ UNCHANGED <<button_pressed, button_events>>
       ELSE IF button_pressed
       THEN /\ button_pressed' = FALSE
            /\ activation_type' = "button"
            /\ main_pc' = "after_wait"
            /\ button_events' = IF bursts > 0 THEN button_events + 1
                                 ELSE button_events
            /\ UNCHANGED wake_word_detected
       ELSE /\ main_pc' = "chk_wake"
            /\ UNCHANGED <<flag_vars, activation_type, button_events>>
    /\ UNCHANGED <<shared_vars, cfg_vars, timeout, elapsed, slept,
                   cancelled_in_wait, listen_vars, user_text, watchers,
                   audio_queue, rem_vars, parse_vars, bounce_time, since_edge, bursts,
                   bounced, led_vars, shutdown_requested>>

\* lines 122-125: `if self.button_pressed`
ChkButton ==
    /\ main_pc = "chk_button"
    /\ both_at_poll' = (both_at_poll \/ (button_pressed /\ wake_word_detected))
    /\ IF button_pressed
       THEN /\ button_pressed' = FALSE
            /\ activation_type' = "button"
            /\ main_pc' = "after_wait"
            /\ button_events' = IF bursts > 0 THEN button_events + 1
                                 ELSE button_events
       ELSE /\ main_pc' = "chk_wake"
            /\ UNCHANGED <<button_pressed, activation_type, button_events>>
    /\ UNCHANGED <<shared_vars, cfg_vars, wake_word_detected, timeout, elapsed,
                   slept, cancelled_in_wait, listen_vars, user_text, watchers,
                   audio_queue,
                   rem_vars, parse_vars, bounce_time, since_edge, bursts,
                   bounced, led_vars, shutdown_requested>>

\* lines 128-131: `if self.wake_word_detected`
ChkWake ==
    /\ main_pc = "chk_wake"
    /\ IF wake_word_detected
       THEN /\ wake_word_detected' = FALSE
            /\ activation_type' = "wake_word"
            /\ main_pc' = "after_wait"
       ELSE /\ main_pc' = "chk_timeout"
            /\ UNCHANGED <<wake_word_detected, activation_type>>
    /\ UNCHANGED <<shared_vars, cfg_vars, button_pressed, wait_vars,
                   listen_vars, user_text, watchers, audio_queue,
                   rem_vars, parse_vars, edge_vars, led_vars, shutdown_requested>>

\* a variant of TimedOut in which a missing timeout counts as 0
TimedOut_NoneIsZero(t, waited) == waited > (IF Truthy(t) THEN t ELSE 0)

\* `if timeout and (time.time() - start_time) > timeout`
TimedOut(t, waited) == Truthy(t) /\ waited > t

\* lines 134-138: the timeout check, then time.sleep(0.1)
ChkTimeout ==
    /\ main_pc = "chk_timeout"
    /\ IF TimedOut(timeout, elapsed)
       THEN /\ activation_type' = "timeout"
            /\ main_pc' = "after_wait"
            /\ UNCHANGED slept
       ELSE /\ slept' = TRUE
            /\ main_pc' = "chk_button"
            /\ UNCHANGED activation_type
    /\ UNCHANGED <<shared_vars, cfg_vars, flag_vars, timeout, elapsed,
                   both_at_poll, cancelled_in_wait, listen_vars, user_text,
                   watchers, audio_queue,
                   rem_vars, parse_vars, edge_vars, led_vars, shutdown_requested>>

\* time passes while wait_for_activation polls: time.time() - start_time grows
Tick ==
    /\ main_pc \in PollPcs
    /\ elapsed < MaxElapsed
    /\ elapsed' = elapsed + 1
    /\ UNCHANGED <<shared_vars, cfg_vars, flag_vars, timeout, slept,
                   both_at_poll, cancelled_in_wait, listen_vars, main_pc,
                   activation_type, user_text, watchers, audio_queue,
                   rem_vars, parse_vars, edge_vars, led_vars, shutdown_requested>>

\* ActivationManager._button_callback, called by the GPIO library's thread
ButtonCallback ==
    /\ Alive
    /\ gpio_enabled
    /\ ~button_pressed
    /\ button_pressed' = TRUE
    /\ UNCHANGED <<shared_vars, cfg_vars, wake_word_detected, wait_vars,
                   listen_vars, main_pc, activation_type, user_text, watchers,
                   audio_queue,
                   rem_vars, parse_vars, edge_vars, led_vars, shutdown_requested>>

(***************************************************************************)
(* The watcher thread: ActivationManager._wake_word_listener running       *)
(* SpeechRecognizer.listen_for_wake_word.  Nothing in wait_for_activation  *)
(* stops or joins the thread, so threads of earlier rounds can be alive.   *)
(***************************************************************************)
\* activation.py 151-155 and stt.py 154-169: the keyword check, then the
\* stream is opened; `opened` is whether sd.RawInputStream succeeded
WatcherOpen(opened) ==
    /\ Alive
    /\ watchers["start"] > 0
    /\ IF has_keywords /\ opened
       THEN watchers' = [watchers EXCEPT !["start"] = @ - 1, !["listen"] = @ + 1]
       ELSE watchers' = [watchers EXCEPT !["start"] = @ - 1]
    /\ UNCHANGED <<shared_vars, cfg_vars, flag_vars, wait_vars, listen_vars,
                   main_pc, activation_type, user_text, audio_queue,
                   rem_vars, parse_vars, edge_vars, led_vars, shutdown_requested>>

\* what the recogniser makes of a frame: a partial result, a final result
\* (AcceptWaveform returned true), or an exception
WatcherFrames == {"partial", "final", "error"}

\* wake_word_config['keywords'] when it is not empty, as configured (strings
\* are sequences of characters; "J" is the capital of "j")
Keywords == {<<"J", "o">>}

\* the texts a result holds: one without the keyword, one with it inside
Heard == {<<"o", "j">>, <<"o", "J", "o">>}

\* the outcomes of one frame: a result of either kind with its text, or an
\* exception
WatcherResults ==
    ({"partial", "final"} \X Heard) \cup {<<"error", <<>> >>}

\* str.lower()
LowerChar(c) == IF c = "J" THEN "j" ELSE c

LowerString(t) == [i \in 1..Len(t) |-> LowerChar(t[i])]

\* Python's `k in t` on strings
Infix(k, t) ==
    \E i \in 0..(Len(t) - Len(k)) : SubSeq(t, i + 1, i + Len(k)) = k

\* stt.py 181-182: `for keyword in keywords: if keyword.lower() in text`
HoldsKeyword(t) == \E keyword \in Keywords : Infix(LowerString(keyword), t)

\* a variant of Detected that looks at partial results as well
Detected_OnPartial(kind, heard) ==
    kind \in {"partial", "final"} /\ HoldsKeyword(LowerString(heard))

\* stt.py 173-184: only a final result is looked at; its text is lowered, and
\* a text that is not empty is searched for the keywords
Detected(kind, heard) ==
    /\ kind = "final"
    /\ LET lowered == LowerString(heard)
       IN  lowered # <<>> /\ HoldsKeyword(lowered)

\* stt.py 170-191: one iteration of the watcher's loop on the frame at the head
\* of the queue: a match returns True, an exception returns False, anything
\* else goes on to the next frame.  No branch empties the queue.
WatcherGet(kind, heard) ==
    /\ Alive
    /\ watchers["listen"] > 0
    /\ audio_queue # <<>>
    /\ audio_queue' = Tail(audio_queue)
    /\ watchers' = IF kind = "error"
                   THEN [watchers EXCEPT !["listen"] = @ - 1]
                   ELSE IF Detected(kind, heard)
                   THEN [watchers EXCEPT !["listen"] = @ - 1, !["matched"] = @ + 1]
                   ELSE watchers
    /\ UNCHANGED <<shared_vars, cfg_vars, flag_vars, wait_vars, listen_vars,
                   main_pc, activation_type, user_text,
                   rem_vars, parse_vars, edge_vars, led_vars, shutdown_requested>>

\* activation.py 160-161: `if detected: self.wake_word_detected = True`
WatcherSetFlag ==
    /\ Alive
    /\ watchers["matched"] > 0
    /\ watchers' = [watchers EXCEPT !["matched"] = @ - 1]
    /\ wake_word_detected' = TRUE
    /\ UNCHANGED <<shared_vars, cfg_vars, button_pressed, wait_vars,
                   listen_vars, main_pc, activation_type, user_text,
                   audio_queue,
                   rem_vars, parse_vars, edge_vars, led_vars, shutdown_requested>>

(***************************************************************************)
(* SpeechRecognizer._audio_callback: every open RawInputStream puts its    *)
(* frames on the one audio_queue.  "w": captured by a watcher's stream,    *)
(* "l": captured by listen()'s stream.                                     *)
(***************************************************************************)
ListenStreamOpen == main_pc = "listen_get"

AudioCallback(who) ==
    /\ Alive
    /\ Len(audio_queue) < MaxQueue
    /\ \/ who = "w" /\ watchers["listen"] > 0
       \/ who = "l" /\ ListenStreamOpen
    /\ audio_queue' = Append(audio_queue, who)
    /\ UNCHANGED <<shared_vars, cfg_vars, flag_vars, wait_vars, listen_vars,
                   main_pc, activation_type, user_text, watchers,
                   rem_vars, parse_vars, edge_vars, led_vars, shutdown_requested>>

(***************************************************************************)
(* VoiceAssistant._main_loop after wait_for_activation returned            *)
(***************************************************************************)
\* a variant of Starts: every activation result starts a session
Starts_Always(activation) == TRUE

\* assistant.py 225-226: `if activation_type == 'timeout' or activation_type
\* == 'interrupted': return`
Starts(activation) == activation \notin {"timeout", "interrupted"}

\* assistant.py 225-235: 'timeout' and 'interrupted' start no session; any
\* other result sets the indicator to 'listening' and goes on to listen()
AfterWait ==
    /\ main_pc = "after_wait"
    /\ WaitIdle
    /\ IF Starts(activation_type)
       THEN /\ set_led_state("listening")
            /\ main_pc' = Then("listen_entry")
            /\ UNCHANGED activation_type
       ELSE /\ main_pc' = "loop"
            /\ activation_type' = "none"
            /\ UNCHANGED led_out
    /\ UNCHANGED <<shared_vars, cfg_vars, flag_vars, listen_vars, user_text,
                   watchers, audio_queue,
                   rem_vars, parse_vars, edge_vars, led_pin, shutdown_requested>>

(***************************************************************************)
(* SpeechRecognizer.listen                                                 *)
(***************************************************************************)
\* a variant of ErrorText that hands back the text heard before the error
ErrorText_Partial == "text"

\* stt.py 136-138: `except Exception: ... return None`
ErrorText == "None"

Budgets == {None} \cup (0..MaxBudget)

\* stt.py 66-95: the stream is opened (`opened`: sd.RawInputStream succeeded),
\* the counters start at 0 and max_chunks is derived from the timeout argument
\* (`budget`: None when the timeout is falsy, else the truncated frame count).
\* A failed open is caught by `except Exception` and the finally clause runs.
ListenEntry(opened, budget) ==
    /\ main_pc = "listen_entry"
    /\ silence_chunks' = 0
    /\ recorded_chunks' = 0
    /\ stale_read' = FALSE
    /\ IF opened
       THEN /\ main_pc' = "listen_get"
            /\ max_chunks' = budget
            /\ user_text' = "none"
            /\ ended_by' = "none"
            /\ UNCHANGED audio_queue
       ELSE /\ main_pc' = "after_listen"
            /\ max_chunks' = None
            /\ user_text' = ErrorText
            /\ ended_by' = "error"
            /\ audio_queue' = <<>>
    /\ UNCHANGED <<shared_vars, cfg_vars, flag_vars, wait_vars,
                   activation_type, watchers,
                   rem_vars, parse_vars, edge_vars, led_vars, shutdown_requested>>

ListenFrames == {"final_text", "final_empty", "partial_text", "partial_empty", "error"}

\* a variant of SilenceAfter in which speech does not reset the counter
SilenceAfter_NoReset(silence, frame) ==
    IF frame = "partial_text" THEN silence ELSE silence + 1

\* stt.py 101-113: the silence counter after a frame that did not end the session
SilenceAfter(silence, frame) ==
    IF frame = "partial_text" THEN 0 ELSE silence + 1

\* a variant of BreakReason that tests the budget before the silence limit
BreakReason_BudgetFirst(silence, recorded, budget) ==
    IF Truthy(budget) /\ recorded >= budget THEN "budget"
    ELSE IF silence >= MaxSilence THEN "silence"
    ELSE "none"

\* stt.py 116-123: the two break conditions, checked in this order
BreakReason(silence, recorded, budget) ==
    IF silence >= MaxSilence THEN "silence"
    ELSE IF Truthy(budget) /\ recorded >= budget THEN "budget"
    ELSE "none"

\* a variant of FinalResult that drops the text
FinalResult_Dropped(final_text) == "None"

\* stt.py 125-134: what listen() returns after a break, from the one
\* FinalResult() query: the text when there is any, else None
FinalResult(final_text) == IF final_text THEN "text" ELSE "None"

\* stt.py 97-142: one iteration of the capture loop on the frame at the head of
\* the queue (audio_queue.get() blocks on an empty queue).  `final_text` is
\* whether FinalResult() holds text after a break.  Every way out of the loop
\* closes the stream and runs the finally clause, which empties the queue.
ListenGet(frame, final_text) ==
    /\ main_pc = "listen_get"
    /\ audio_queue # <<>>
    /\ frame = "partial_text" => recorded_chunks < MaxSpeech
    /\ stale_read' = (stale_read \/ Head(audio_queue) = "w")
    /\ recorded_chunks' = recorded_chunks + 1
    /\ IF frame = "final_text"
       THEN /\ user_text' = "text"
            /\ ended_by' = "final"
            /\ main_pc' = "after_listen"
            /\ audio_queue' = <<>>
            /\ UNCHANGED silence_chunks
       ELSE IF frame = "error"
       THEN /\ user_text' = ErrorText
            /\ ended_by' = "error"
            /\ main_pc' = "after_listen"
            /\ audio_queue' = <<>>
            /\ UNCHANGED silence_chunks
       ELSE /\ silence_chunks' = SilenceAfter(silence_chunks, frame)
            /\ LET why == BreakReason(silence_chunks', recorded_chunks', max_chunks)
               IN  IF why = "none"
                   THEN /\ audio_queue' = Tail(audio_queue)
                        /\ UNCHANGED <<main_pc, user_text, ended_by>>
                   ELSE /\ user_text' = FinalResult(final_text)
                        /\ ended_by' = why
                        /\ main_pc' = "after_listen"
                        /\ audio_queue' = <<>>
    /\ UNCHANGED <<shared_vars, cfg_vars, flag_vars, wait_vars, max_chunks,
                   activation_type, watchers,
                   rem_vars, parse_vars, edge_vars, led_vars, shutdown_requested>>

\* assistant.py 237-251: no text, or a text that sanitize_user_input (26-49)
\* leaves empty (`sane` is false), ends the session with the indicator 'off';
\* otherwise the indicator is set to 'processing' and the command is processed
AfterListen(sane) ==
    /\ main_pc = "after_listen"
    /\ ListenIdle
    /\ IF user_text = "text" /\ sane
       THEN /\ set_led_state("processing")
            /\ main_pc' = Then("process")
            /\ UNCHANGED <<user_text, activation_type>>
       ELSE /\ set_led_state("off")
            /\ main_pc' = Then("loop")
            /\ user_text' = "none"
            /\ activation_type' = "none"
    /\ UNCHANGED <<shared_vars, cfg_vars, flag_vars, wait_vars, watchers,
                   audio_queue, rem_vars, parse_vars, edge_vars, led_pin,
                   shutdown_requested>>

\* assistant.py 252-255 and 257-312: the command is processed and the
\* indicator set to 'off'.  The shutdown command clears self.running.  An
\* exception raised while the command is processed ("raise": the ValueError
\* of parse_reminder_from_text, a handler that fails) is caught neither in
\* _process_command nor in _main_loop nor in start() (207-214, which catches
\* KeyboardInterrupt only): the loop ends and the finally clause calls stop().
Commands == {"chat", "shutdown", "raise"}

ProcessCommand(cmd) ==
    /\ main_pc = "process"
    /\ user_text' = "none"
    /\ activation_type' = "none"
    /\ shutdown_requested' = (shutdown_requested \/ cmd = "shutdown")
    /\ IF cmd = "raise"
       THEN /\ main_pc' = "crashed"
            /\ running' = FALSE
            /\ ProcessExit
            /\ UNCHANGED <<led_level, led_state, led_outcome>>
       ELSE /\ set_led_state("off")
            /\ main_pc' = Then("loop")
            /\ running' = IF cmd = "shutdown" THEN FALSE ELSE running
            /\ UNCHANGED <<watchers, audio_queue>>
    /\ UNCHANGED <<clock, cfg_vars, flag_vars, wait_vars, listen_vars,
                   rem_vars, parse_vars, edge_vars, led_pin>>

(***************************************************************************)
(* Shutdown.  With main()'s handlers installed, SIGINT/SIGTERM run         *)
(* signal_handler in the main thread: assistant.stop(), then sys.exit(0),  *)
(* whose SystemExit no `except KeyboardInterrupt` / `except Exception`     *)
(* catches.  Without them (VoiceAssistant.start() or the module's own      *)
(* __main__ run directly) SIGINT raises KeyboardInterrupt in the main      *)
(* thread.                                                                 *)
(***************************************************************************)
ShutdownSignal ==
    /\ Alive
    /\ handlers_installed
    /\ running' = FALSE
    /\ shutdown_requested' = TRUE
    /\ main_pc' = "exited"
    /\ cancelled_in_wait' = (main_pc \in PollPcs)
    /\ ProcessExit
    /\ UNCHANGED <<clock, cfg_vars, flag_vars, timeout, elapsed, slept,
                   both_at_poll, listen_vars, activation_type, user_text,
                   rem_vars, parse_vars, edge_vars, led_pin, led_level,
                   led_state, led_outcome>>

\* activation.py 140-142 inside the poll loop; assistant.py 211-214 elsewhere
KeyboardInterrupt ==
    /\ Alive
    /\ ~handlers_installed
    /\ shutdown_requested' = TRUE
    /\ IF main_pc \in PollPcs
       THEN /\ activation_type' = "interrupted"
            /\ main_pc' = "after_wait"
            /\ cancelled_in_wait' = TRUE
            /\ UNCHANGED <<running, watchers, audio_queue, blinkers>>
       ELSE /\ running' = FALSE
            /\ main_pc' = "done"
            /\ ProcessExit
            /\ UNCHANGED <<activation_type, cancelled_in_wait>>
    /\ UNCHANGED <<clock, cfg_vars, flag_vars, timeout, elapsed, slept,
                   both_at_poll, listen_vars, user_text,
                   rem_vars, parse_vars, edge_vars, led_pin, led_level,
                   led_state, led_outcome>>

Next ==
    \/ StartLoop
    \/ \E t \in Timeouts : WaitEntry(t)
    \/ ChkButton
    \/ ChkWake
    \/ ChkTimeout
    \/ Tick
    \/ ButtonCallback
    \/ \E opened \in BOOLEAN : WatcherOpen(opened)
    \/ \E r \in WatcherResults : WatcherGet(r[1], r[2])
    \/ WatcherSetFlag
    \/ \E who \in {"w", "l"} : AudioCallback(who)
    \/ AfterWait
    \/ \E opened \in BOOLEAN, budget \in Budgets : ListenEntry(opened, budget)
    \/ \E frame \in ListenFrames, final_text \in BOOLEAN : ListenGet(frame, final_text)
    \/ \E sane \in BOOLEAN : AfterListen(sane)
    \/ \E cmd \in Commands : ProcessCommand(cmd)
    \/ ShutdownSignal
    \/ KeyboardInterrupt

Spec == Init /\ [][Next]_vars

(***************************************************************************)
(* SpecLed: the session loop with the button as the only activation        *)
(* source and an LED pin configured, together with the blink threads that  *)
(* set_led_state starts.  Nothing joins or stops a blink thread, so its    *)
(* writes interleave with every later step of the loop.  The capture       *)
(* session is kept short (a budget of one frame).                          *)
(***************************************************************************)
LedNext ==
    \/ StartLoop
    \/ \E t \in Timeouts : WaitEntry(t)
    \/ ChkButton
    \/ ChkWake
    \/ ChkTimeout
    \/ Tick
    \/ ButtonCallback
    \/ AudioCallback("l")
    \/ AfterWait
    \/ \E opened \in BOOLEAN : ListenEntry(opened, 1)
    \/ \E frame \in ListenFrames, final_text \in BOOLEAN : ListenGet(frame, final_text)
    \/ \E sane \in BOOLEAN : AfterListen(sane)
    \/ \E cmd \in Commands : ProcessCommand(cmd)
    \/ \E r \in BlinkStages, fail \in BOOLEAN : BlinkStep(r, fail)
    \/ KeyboardInterrupt

LedInit ==
    /\ running = TRUE
    /\ clock = 0
    /\ ArbInit
    /\ gpio_enabled
    /\ ~wake_word_enabled
    /\ ~handlers_installed
    /\ bounce_time = MaxBounce
    /\ led_pin = TRUE
    /\ RemInit
    /\ ParseIdle

SpecLed == LedInit /\ [][LedNext]_vars

(***************************************************************************)
(* The button pin.  _setup_gpio registers _button_callback with            *)
(* GPIO.add_event_detect(pin, GPIO.FALLING, callback, bouncetime):         *)
(* the GPIO library's thread runs the callback for a falling edge only     *)
(* when more than bouncetime passed since the edge for which it last ran   *)
(* it, or when it never ran it.  SpecButton follows the edges themselves,  *)
(* where Spec lets the callback run at any time.                           *)
(***************************************************************************)
\* a variant of Accepts without the bouncetime test
Accepts_Always(since, bounce) == TRUE

\* activation.py 67-72: the bouncetime handed to add_event_detect
Accepts(since, bounce) == since > bounce

\* a falling edge on the button pin; the callback (80-83) sets the flag
Trigger ==
    /\ Alive
    /\ gpio_enabled
    /\ IF since_edge > bounce_time
       THEN /\ bursts < MaxBursts
            /\ bursts' = bursts + 1
            /\ bounced' = FALSE
       ELSE /\ bounced' = TRUE
            /\ UNCHANGED bursts
    /\ IF Accepts(since_edge, bounce_time)
       THEN /\ button_pressed' = TRUE
            /\ since_edge' = 0
       ELSE UNCHANGED <<button_pressed, since_edge>>
    /\ UNCHANGED <<shared_vars, cfg_vars, wake_word_detected, wait_vars,
                   listen_vars, main_pc, activation_type, user_text, watchers,
                   audio_queue, rem_vars, parse_vars, bounce_time,
                   button_events, led_vars, shutdown_requested>>

\* time passes on the pin; past MaxBounce every window is over
Elapse ==
    /\ Alive
    /\ since_edge <= MaxBounce
    /\ since_edge' = since_edge + 1
    /\ UNCHANGED <<shared_vars, cfg_vars, flag_vars, wait_vars, listen_vars,
                   main_pc, activation_type, user_text, watchers, audio_queue,
                   rem_vars, parse_vars, bounce_time, bursts, bounced,
                   button_events, led_vars, shutdown_requested>>

ButtonNext ==
    \/ StartLoop
    \/ \E t \in Timeouts : WaitEntry(t)
    \/ ChkButton
    \/ ChkWake
    \/ ChkTimeout
    \/ Tick
    \/ Trigger
    \/ Elapse
    \/ \E who \in {"w", "l"} : AudioCallback(who)
    \/ AfterWait
    \/ \E opened \in BOOLEAN, budget \in Budgets : ListenEntry(opened, budget)
    \/ \E frame \in ListenFrames, final_text \in BOOLEAN : ListenGet(frame, final_text)
    \/ \E sane \in BOOLEAN : AfterListen(sane)
    \/ \E cmd \in Commands : ProcessCommand(cmd)
    \/ ShutdownSignal

\* the button is the only activation source, for every debounce window
ButtonInit ==
    /\ running = TRUE
    /\ clock = 0
    /\ ArbInit
    /\ gpio_enabled
    /\ ~wake_word_enabled
    /\ handlers_installed
    /\ bounce_time \in 1..MaxBounce
    /\ led_pin = FALSE
    /\ RemInit
    /\ ParseIdle

SpecButton == ButtonInit /\ [][ButtonNext]_vars

(***************************************************************************)
(* The reminder store (services/reminders.py).  RemindersManager opens one *)
(* sqlite3 connection with check_same_thread=False and one cursor; the     *)
(* reminder thread (check_reminders) and the session thread (add_reminder) *)
(* both use them, with no lock.  The connection opens a transaction before *)
(* the first INSERT/UPDATE and keeps it open until commit(); the code      *)
(* never calls rollback().  A statement or commit that fails leaves the    *)
(* open transaction as it was, or, for some errors (disk full, I/O error), *)
(* SQLite rolls the whole transaction back by itself.                      *)
(***************************************************************************)
Ids(table) == 1..Len(table)

Range(seq) == {seq[i] : i \in 1..Len(seq)}

\* `WHERE datetime <= ? AND notified = 0`
IsDue(row, now) == row.due <= now /\ ~row.notified

DueIds(table, now) == {i \in Ids(table) : IsDue(table[i], now)}

\* `ORDER BY datetime`: the datetime is the only sort key
Before(table, i, j) == table[i].due <= table[j].due

\* the orders in which a result set may hold the rows `ids`: the query names
\* no second key, and SQLite leaves the order of rows with equal keys
\* undefined (it follows from the query plan the engine chooses)
RECURSIVE Ordered(_, _)
Ordered(table, ids) ==
    IF ids = {} THEN {<<>>}
    ELSE UNION {{<<first>> \o rest : rest \in Ordered(table, ids \ {first})} :
                first \in {i \in ids : \A j \in ids : Before(table, i, j)}}

\* the SELECT of check_reminders (lines 120-125): the result sets it may give
SelectDue(table, now) == Ordered(table, DueIds(table, now))

\* a mutant of MarkNotified: the UPDATE is lost
MarkNotified_Lost(table, id) == table

\* `UPDATE reminders SET notified = 1 WHERE id = ?` (lines 137-139)
MarkNotified(table, id) == [table EXCEPT ![id].notified = TRUE]

\* a variant of InsertRow that puts the new row before the rows stored
InsertRow_Front(table, due) == <<[due |-> due, notified |-> FALSE]>> \o table

\* `INSERT INTO reminders (text, datetime, created_at)` (lines 88-91):
\* notified defaults to 0, the id is the next rowid
InsertRow(table, due) == Append(table, [due |-> due, notified |-> FALSE])

\* the history of ids that a rollback removes from the table is forgotten:
\* the next INSERT gives the id to another reminder
Forget(f, table) == [i \in 1..MaxReminders |-> IF i \in Ids(table) THEN f[i] ELSE 0]

\* a failure, an add_reminder step, a crash or a step of the clock: the
\* polls around it are not two polls in succession at one time
Disturb ==
    /\ disturbed' = TRUE
    /\ poll_due' = {}
    /\ streak' = 0
    /\ streak_first' = 0

\* what a failed statement or commit leaves behind: the open transaction as
\* it was, or (rollback) the committed table.  `batch` is what a poll that
\* failed had fetched (for add_reminder: the batch already on record).
StoreFailure(rollback, batch) ==
    /\ failures < MaxFailures
    /\ failures' = failures + 1
    /\ Disturb
    /\ cursor_rows' = <<>>
    /\ UNCHANGED db
    /\ IF rollback
       THEN /\ view' = db
            /\ returned' = Forget(returned, db)
            /\ failed_batch' = batch \cap Ids(db)
       ELSE /\ failed_batch' = batch
            /\ UNCHANGED <<view, returned>>

\* check_reminders lines 145-147: `except Exception: ... return []`, back in
\* _reminder_checker with nothing to speak
CheckFailed(rollback, batch) ==
    /\ StoreFailure(rollback, batch)
    /\ rpc' = "speak"
    /\ rows' = <<>>
    /\ reminders' = <<>>
    /\ due_reminders' = <<>>
    /\ poll_result' = <<>>
    /\ poll_ok' = FALSE

\* assistant.py 353: `while self.running`
ReminderLoop ==
    /\ rpc = "loop"
    /\ rpc' = IF running THEN "select" ELSE "exited"
    /\ UNCHANGED <<shared_vars, arb_vars, parse_vars, lastrowid, acked,
                   store_vars, rows, reminders,
                   due_reminders, spc, failures, returned, poll_due,
                   poll_result, poll_ok, failed_batch, disturbed,
                   streak, streak_first>>

\* reminders.py 118-125: now = datetime.now(); cursor.execute(SELECT ...)
CheckSelect(fail, rollback) ==
    /\ rpc = "select"
    /\ IF fail
       THEN /\ CheckFailed(rollback, {})
       ELSE /\ cursor_rows' \in SelectDue(view, clock)
            /\ poll_due' = DueIds(view, clock)
            /\ rpc' = "fetch"
            /\ disturbed' = FALSE
            /\ streak' = IF disturbed THEN 0 ELSE streak
            /\ streak_first' = IF disturbed THEN 0 ELSE streak_first
            /\ UNCHANGED <<db, view, rows, reminders, due_reminders, failures,
                           returned, poll_result, poll_ok, failed_batch>>
    /\ UNCHANGED <<shared_vars, arb_vars, parse_vars, lastrowid, acked,
                   spc>>

\* reminders.py 127-128: `reminders = []`, `self.cursor.fetchall()` takes
\* whatever result set the shared cursor holds now
CheckFetch ==
    /\ rpc = "fetch"
    /\ rows' = cursor_rows
    /\ cursor_rows' = <<>>
    /\ reminders' = <<>>
    /\ rpc' = IF cursor_rows = <<>> THEN "commit" ELSE "update"
    /\ UNCHANGED <<shared_vars, arb_vars, parse_vars, lastrowid, acked,
                   db, view, due_reminders, spc,
                   failures, returned, poll_due, poll_result, poll_ok,
                   failed_batch, disturbed, streak, streak_first>>

\* reminders.py 129-139: one iteration of the for loop: the row joins the
\* list, then its UPDATE runs in the connection's open transaction
CheckUpdate(fail, rollback) ==
    /\ rpc = "update"
    /\ IF fail
       THEN CheckFailed(rollback, Range(reminders) \cup Range(rows))
       ELSE /\ reminders' = Append(reminders, Head(rows))
            /\ rows' = Tail(rows)
            /\ view' = IF Head(rows) \in Ids(view)
                       THEN MarkNotified(view, Head(rows)) ELSE view
            /\ cursor_rows' = <<>>
            /\ rpc' = IF Tail(rows) = <<>> THEN "commit" ELSE "update"
            /\ UNCHANGED <<db, due_reminders, failures, returned, poll_due,
                           poll_result, poll_ok, failed_batch, disturbed,
                           streak, streak_first>>
    /\ UNCHANGED <<shared_vars, arb_vars, parse_vars, lastrowid, acked,
                   spc>>

Bump(f, ids) == [i \in 1..MaxReminders |-> IF i \in ids /\ f[i] < 2 THEN f[i] + 1 ELSE f[i]]

\* reminders.py 141-143: self.conn.commit(); return reminders
CheckCommit(fail, rollback) ==
    /\ rpc = "commit"
    /\ IF fail
       THEN CheckFailed(rollback, Range(reminders))
       ELSE /\ db' = view
            /\ due_reminders' = reminders
            /\ poll_result' = reminders
            /\ poll_ok' = TRUE
            /\ returned' = Bump(returned, Range(reminders))
            /\ streak' = IF disturbed THEN 0 ELSE IF streak < 2 THEN streak + 1 ELSE 2
            /\ streak_first' = IF ~disturbed /\ streak = 0 THEN Len(reminders)
                               ELSE streak_first
            /\ reminders' = <<>>
            /\ rpc' = "speak"
            /\ UNCHANGED <<view, cursor_rows, rows, failures, poll_due,
                           failed_batch, disturbed>>
    /\ UNCHANGED <<shared_vars, arb_vars, parse_vars, lastrowid, acked,
                   spc>>

\* the cycle is over: what the poll returned is dropped
CycleEnd ==
    /\ rpc' = "loop"
    /\ due_reminders' = <<>>
    /\ poll_due' = {}
    /\ poll_result' = <<>>
    /\ failed_batch' = IF poll_ok THEN {} ELSE failed_batch

\* assistant.py 358-367: each reminder is spoken; an exception of tts.speak
\* is caught, the rest of the list is dropped, the thread sleeps and loops
Speak(fail) ==
    /\ rpc = "speak"
    /\ due_reminders # <<>>
    /\ IF fail
       THEN /\ failures < MaxFailures
            /\ failures' = failures + 1
            /\ CycleEnd
       ELSE /\ due_reminders' = Tail(due_reminders)
            /\ UNCHANGED <<failures, rpc, poll_due, poll_result, failed_batch>>
    /\ UNCHANGED <<shared_vars, arb_vars, parse_vars, lastrowid, acked,
                   store_vars, rows, reminders, spc,
                   returned, poll_ok, disturbed, streak, streak_first>>

\* assistant.py 363: time.sleep(check_interval)
Sleep ==
    /\ rpc = "speak"
    /\ due_reminders = <<>>
    /\ CycleEnd
    /\ UNCHANGED <<shared_vars, arb_vars, parse_vars, lastrowid, acked,
                   store_vars, rows, reminders, spc,
                   failures, returned, poll_ok, disturbed, streak, streak_first>>

\* add_reminder lines 84-91, called by the session thread for a reminder
\* command: the INSERT runs on the shared cursor, whose result set it replaces
AddInsert(due, fail, rollback) ==
    /\ spc = "idle"
    /\ running
    /\ Len(view) < MaxReminders
    /\ due >= clock
    /\ IF fail
       THEN /\ StoreFailure(rollback, failed_batch)
            /\ UNCHANGED <<spc, lastrowid>>
       ELSE /\ view' = InsertRow(view, due)
            /\ cursor_rows' = <<>>
            /\ spc' = "commit"
            /\ lastrowid' = Len(view) + 1
            /\ Disturb
            /\ UNCHANGED <<db, failures, returned, failed_batch>>
    /\ acked' = {}
    /\ UNCHANGED <<shared_vars, arb_vars, parse_vars, rpc, rows, reminders,
                   due_reminders,
                   poll_result, poll_ok>>

\* add_reminder lines 93-105: self.conn.commit(), then the success message;
\* a failure returns (False, ...)
AddCommit(fail, rollback) ==
    /\ spc = "commit"
    /\ spc' = "idle"
    /\ lastrowid' = 0
    /\ IF fail
       THEN /\ StoreFailure(rollback, failed_batch)
            /\ UNCHANGED acked
       ELSE /\ db' = view
            /\ acked' = {lastrowid}
            /\ Disturb
            /\ UNCHANGED <<view, cursor_rows, failures, returned, failed_batch>>
    /\ UNCHANGED <<shared_vars, arb_vars, parse_vars, rpc, rows, reminders,
                   due_reminders,
                   poll_result, poll_ok>>

\* datetime.now() moves on; two polls on either side of it, or one under
\* way, are not polls at the same current time
ClockTick ==
    /\ running
    /\ clock < MaxClock
    /\ clock' = clock + 1
    /\ Disturb
    /\ UNCHANGED <<running, arb_vars, parse_vars, lastrowid, acked,
                   store_vars, rpc, rows, reminders,
                   due_reminders, spc, failures, returned,
                   poll_result, poll_ok, failed_batch>>

\* The assistant stops: the shutdown command (assistant.py 304-308, in the
\* session thread, hence outside add_reminder) or signal_handler (401-404),
\* whose SystemExit abandons an add_reminder call under way.  running is
\* cleared; the reminder thread goes on until it reads the flag.
Stop ==
    /\ running
    /\ running' = FALSE
    /\ spc' = "idle"
    /\ lastrowid' = 0
    /\ UNCHANGED <<clock, arb_vars, parse_vars, store_vars, rpc, rows,
                   reminders, due_reminders, failures, returned, poll_due,
                   poll_result, poll_ok, failed_batch, disturbed, streak,
                   streak_first, acked>>

\* the running process ends at any point (crash, kill) and is started
\* again: _init_database (reminders.py 43-62) connects anew, so the store is
\* the committed table and what an open transaction held is gone; the
\* threads start from the top
Restart ==
    /\ running
    /\ failures < MaxFailures
    /\ failures' = failures + 1
    /\ view' = db
    /\ cursor_rows' = <<>>
    /\ rpc' = "loop"
    /\ rows' = <<>>
    /\ reminders' = <<>>
    /\ due_reminders' = <<>>
    /\ spc' = "idle"
    /\ lastrowid' = 0
    /\ returned' = Forget(returned, db)
    /\ poll_result' = <<>>
    /\ poll_ok' = TRUE
    /\ failed_batch' = {}
    /\ Disturb
    /\ UNCHANGED <<shared_vars, arb_vars, parse_vars, db, acked>>

RemNext ==
    \/ ReminderLoop
    \/ \E fail \in BOOLEAN, rollback \in BOOLEAN : CheckSelect(fail, rollback)
    \/ CheckFetch
    \/ \E fail \in BOOLEAN, rollback \in BOOLEAN : CheckUpdate(fail, rollback)
    \/ \E fail \in BOOLEAN, rollback \in BOOLEAN : CheckCommit(fail, rollback)
    \/ \E fail \in BOOLEAN : Speak(fail)
    \/ Sleep
    \/ \E due \in 0..MaxClock, fail \in BOOLEAN, rollback \in BOOLEAN :
            AddInsert(due, fail, rollback)
    \/ \E fail \in BOOLEAN, rollback \in BOOLEAN : AddCommit(fail, rollback)
    \/ ClockTick
    \/ Stop
    \/ Restart

\* the session loop stands still: the configuration is the one with every
\* activation method disabled
SessionIdle ==
    /\ ArbInit
    /\ bounce_time = MaxBounce
    /\ led_pin = FALSE
    /\ ~gpio_enabled
    /\ ~wake_word_enabled
    /\ handlers_installed

RemindersInit ==
    /\ running = TRUE
    /\ clock = 0
    /\ SessionIdle
    /\ RemInit
    /\ ParseIdle

SpecReminders == RemindersInit /\ [][RemNext]_vars

(***************************************************************************)
(* SpecStore: the statements the two threads run on the store while        *)
(* datetime.now() stands still: every INSERT, SELECT, UPDATE and commit,   *)
(* their failures, and the process ending and starting again.              *)
(***************************************************************************)
StoreNext ==
    \/ ReminderLoop
    \/ \E fail \in BOOLEAN, rollback \in BOOLEAN : CheckSelect(fail, rollback)
    \/ CheckFetch
    \/ \E fail \in BOOLEAN, rollback \in BOOLEAN : CheckUpdate(fail, rollback)
    \/ \E fail \in BOOLEAN, rollback \in BOOLEAN : CheckCommit(fail, rollback)
    \/ \E fail \in BOOLEAN : Speak(fail)
    \/ Sleep
    \/ \E due \in 0..MaxClock, fail \in BOOLEAN, rollback \in BOOLEAN :
            AddInsert(due, fail, rollback)
    \/ \E fail \in BOOLEAN, rollback \in BOOLEAN : AddCommit(fail, rollback)
    \/ Stop
    \/ Restart

SpecStore == RemindersInit /\ [][StoreNext]_vars

(***************************************************************************)
(* Properties of the reminder store, checked under SpecReminders           *)
(***************************************************************************)

\* C2: over any polls, add_reminder calls and failures, in any interleaving of
\* the two threads, check_reminders returns each reminder at most once.
C2_ReturnedAtMostOnce ==
    \A i \in 1..MaxReminders : returned[i] <= 1

\* C3: after a write of check_reminders failed, no flip of that batch becomes
\* durable unless a later poll has returned the reminder.
C3_FailedBatchNotFlipped ==
    \A i \in failed_batch \cap Ids(db) : db[i].notified => returned[i] >= 1

\* C4: of two polls in succession at the same current time, with no failure
\* and no add_reminder step since the first one's SELECT, the first returns
\* exactly the due unnotified reminders and the second returns the empty list.
C4_SecondPollEmpty ==
    (rpc = "speak" /\ poll_ok /\ ~disturbed) =>
        /\ Range(poll_result) = poll_due
        /\ Len(poll_result) = Cardinality(poll_due)
        /\ streak = 2 => poll_result = <<>>

\* C4 witness: the second of two such polls has returned nothing after the
\* first returned a reminder
C4_Witness ==
    /\ rpc = "speak"
    /\ poll_ok
    /\ ~disturbed
    /\ streak = 2
    /\ streak_first > 0
    /\ poll_result = <<>>

\* C5: the reminder loop ends only when the assistant stops running, and the
\* first poll that succeeds after a failed one returns the reminders the
\* failed one had fetched.
C5_LoopSurvivesAndRecovers ==
    /\ rpc = "exited" => ~running
    /\ (rpc = "speak" /\ poll_ok) => failed_batch \subseteq Range(poll_result)

(***************************************************************************)
(* Properties of the session loop, checked under Spec                      *)
(***************************************************************************)

\* C1: the watcher and the capture session never read the microphone queue at
\* the same time: while listen() is in its capture loop no watcher thread is
\* in the loop of listen_for_wake_word.
C1_MicrophoneExclusive ==
    main_pc = "listen_get" => watchers["listen"] = 0

\* C6: if both flags are set when the arbitration loop polls them, the round
\* returns 'button'.
C6_TieBreakButton ==
    both_at_poll => activation_type = "button"

\* C6 witness: a round that found both flags set and returned 'button'
C6_Witness ==
    /\ both_at_poll
    /\ main_pc = "after_wait"
    /\ activation_type = "button"
    /\ wake_word_detected

\* C7: with both activation methods disabled wait_for_activation returns
\* 'auto' at once, whatever the timeout: no poll, no sleep, no watcher thread.
C7_AutoImmediately ==
    (~gpio_enabled /\ ~wake_word_enabled) =>
        /\ main_pc \notin PollPcs
        /\ ~slept
        /\ WatchersAlive = 0
        /\ main_pc = "after_wait" => activation_type = "auto"

\* C7 witness: both methods disabled, a call with timeout 0 has returned 'auto'
C7_Witness ==
    /\ ~gpio_enabled
    /\ ~wake_word_enabled
    /\ main_pc = "after_wait"
    /\ activation_type = "auto"
    /\ timeout = 0

\* C8: for every timeout that is not None, 0 included, the timeout check
\* returns 'timeout' once the elapsed time exceeds it and neither flag is set.
C8_TimeoutForEveryNonNull ==
    [][(/\ ChkTimeout
        /\ timeout # None
        /\ elapsed > timeout
        /\ ~button_pressed
        /\ ~wake_word_detected)
       => (main_pc' = "after_wait" /\ activation_type' = "timeout")]_vars

\* C9: a shutdown signal that arrives while wait_for_activation polls makes it
\* return 'interrupted': the poll loop is never left another way after it.
C9_CancelReturnsInterrupted ==
    (cancelled_in_wait /\ main_pc \notin PollPcs) => activation_type = "interrupted"

\* C10: the audio queue is empty when a capture session starts, and listen()
\* never consumes a frame that a watcher's stream captured.
C10_QueueEmptyBetweenSessions ==
    /\ main_pc = "listen_entry" => audio_queue = <<>>
    /\ ~stale_read

(***************************************************************************)
(* Properties of the capture session, checked under Spec                   *)
(***************************************************************************)

\* C11: listen() returns None without an error if and only if the silence
\* counter reached max_silence_chunks and the recognizer held no final text.
C11_NoSpeechIffSilence ==
    (main_pc = "after_listen" /\ ended_by # "error") =>
        ((user_text = "None") <=>
            (silence_chunks >= MaxSilence /\ user_text # "text"))

\* C12: when the source fails during listen(), the call returns None, never
\* the text of earlier frames, and the queue is empty when it returns.
C12_ErrorReturnsNoText ==
    [][(main_pc \in {"listen_entry", "listen_get"} /\ ended_by' = "error")
        => (main_pc' = "after_listen" /\ user_text' = "None"
            /\ audio_queue' = <<>>)]_vars

\* C12 witness: the failing frame came after a frame with partial text
C12_Witness ==
    /\ main_pc = "after_listen"
    /\ ended_by = "error"
    /\ recorded_chunks >= 2
    /\ silence_chunks = 0
    /\ user_text = "None"

(***************************************************************************)
(* Properties of the foreground loop, checked under Spec                   *)
(***************************************************************************)

\* C19: a failure inside one command session never ends the foreground loop;
\* the loop ends only by the shutdown command, KeyboardInterrupt or a signal.
C19_FailuresContained ==
    main_pc # "crashed"

(***************************************************************************)
(* RemindersManager.parse_reminder_from_text and                           *)
(* VoiceAssistant._handle_reminder.  A text is a sequence of words and     *)
(* single spaces.  The words stand for: napomni "напомни", cherez "через", *)
(* minut "минут", chas "час", zavtra "завтра", v "в", Kupit "Купить"; "10" *)
(* is a number, "9:00" and "25:00" are digits:digits.  Instants are counted *)
(* in half minutes, so that `now` can lie inside a minute.                  *)
(***************************************************************************)
\* words of a command after the optional command word
MaxWords == 4

Space == " "

CommandWord == "napomni"

Numbers == {"10"}

NumberOf(word) == 10

ClockWords == {"9:00", "25:00"}

HourOf(word) == IF word = "9:00" THEN 9 ELSE 25

MinuteOf(word) == 0

Words == {"cherez", "minut", "chas", "zavtra", "v", "Kupit"} \cup Numbers \cup ClockWords

RECURSIVE Join(_)
Join(ws) ==
    IF Len(ws) <= 1 THEN ws
    ELSE <<Head(ws), Space>> \o Join(Tail(ws))

Bodies == UNION {[1..n -> Words] : n \in 0..MaxWords}

\* the texts _handle_reminder is called with
Texts == {Join(p \o b) : p \in {<<>>, <<CommandWord>>}, b \in Bodies}

\* the phrases of the four rules, and a phrase no rule matches
Phrases == {<<"cherez", "10", "minut">>, <<"cherez", "10", "chas">>,
            <<"v", "9:00">>, <<"zavtra", "v", "9:00">>, <<"Kupit">>}

\* texts made of two phrases, in either order
PhraseTexts == {Join(a \o b) : a \in Phrases, b \in Phrases}

\* reminders.py 162: text.lower()
Lower(word) == IF word = "Kupit" THEN "kupit" ELSE word

LowerText(s) == [i \in 1..Len(s) |-> Lower(s[i])]

\* reminders.py 165-170: the patterns, in the order the dict is iterated
CherezMinut == <<{"cherez"}, {Space}, Numbers, {Space}, {"minut"}>>

CherezChasov == <<{"cherez"}, {Space}, Numbers, {Space}, {"chas"}>>

VVremya == <<{"v"}, {Space}, ClockWords>>

ZavtraV == <<{"zavtra"}, {Space}, {"v"}, {Space}, ClockWords>>

patterns == <<CherezMinut, CherezChasov, VVremya, ZavtraV>>

MatchesAt(s, i, pat) ==
    /\ i + Len(pat) - 1 <= Len(s)
    /\ \A k \in 1..Len(pat) : s[i + k - 1] \in pat[k]

\* re.search: the start of the leftmost match, 0 when there is none
Search(s, pat) ==
    LET hits == {i \in 1..Len(s) : MatchesAt(s, i, pat)}
    IN  IF hits = {} THEN 0
        ELSE CHOOSE i \in hits : \A j \in hits : i <= j

\* re.sub(pattern, '', s, count=1): the leftmost match removed
Sub(s, pat) ==
    LET i == Search(s, pat)
    IN  IF i = 0 THEN s
        ELSE SubSeq(s, 1, i - 1) \o SubSeq(s, i + Len(pat), Len(s))

RECURSIVE LStrip(_)
LStrip(s) ==
    IF s # <<>> /\ Head(s) = Space THEN LStrip(Tail(s)) ELSE s

RECURSIVE RStrip(_)
RStrip(s) ==
    IF s # <<>> /\ s[Len(s)] = Space THEN RStrip(SubSeq(s, 1, Len(s) - 1)) ELSE s

\* str.strip(): only leading and trailing whitespace goes
Strip(s) == RStrip(LStrip(s))

Minutes(n) == 2 * n

Hours(n) == Minutes(60 * n)

Day == Hours(24)

\* datetime.now(): 08:00:30, 09:00:00 and 09:00:30 of day 0
Nows == {Hours(8) + 1, Hours(9), Hours(9) + 1}

\* datetime.replace raises ValueError outside these ranges
ValidClock(h, m) == h \in 0..23 /\ m \in 0..59

\* now.replace(hour=h, minute=m, second=0, microsecond=0)
Replace(t, h, m) == (t \div Day) * Day + Hours(h) + Minutes(m)

\* a variant of RollOver that never moves to the next day
RollOver_Never(t, at) == t

\* reminders.py 193-194: if remind_time < now: remind_time += timedelta(days=1)
RollOver(t, at) == IF t < at THEN t + Day ELSE t

\* reminders.py 177-204: the time of rule k matched at position i of s
Resolve(k, s, i, at) ==
    CASE k = 1 -> [raise |-> FALSE, time |-> at + Minutes(NumberOf(s[i + 2]))]
      [] k = 2 -> [raise |-> FALSE, time |-> at + Hours(NumberOf(s[i + 2]))]
      [] k = 3 ->
            LET h == HourOf(s[i + 2])
                m == MinuteOf(s[i + 2])
            IN  IF ValidClock(h, m)
                THEN [raise |-> FALSE, time |-> RollOver(Replace(at, h, m), at)]
                ELSE [raise |-> TRUE, time |-> None]
      [] k = 4 ->
            LET h == HourOf(s[i + 4])
                m == MinuteOf(s[i + 4])
            IN  IF ValidClock(h, m)
                THEN [raise |-> FALSE, time |-> Replace(at, h, m) + Day]
                ELSE [raise |-> TRUE, time |-> None]

\* a variant of FirstHit: the last pattern that matches decides
FirstHit_Last(hits) == CHOOSE x \in hits : \A y \in hits : x >= y

\* reminders.py 172-175: the for loop over the dict returns inside the first
\* pattern that matches
FirstHit(hits) == CHOOSE x \in hits : \A y \in hits : x <= y

\* reminders.py 149-206: the first pattern in dict order that matches decides;
\* (None, text) with the original text when none matches
parse_reminder_from_text(txt, at) ==
    LET text_lower == LowerText(txt)
        hits == {k \in 1..Len(patterns) : Search(text_lower, patterns[k]) # 0}
    IN  IF hits = {}
        THEN [status |-> "none", time |-> None, text |-> txt]
        ELSE LET k == FirstHit(hits)
                 r == Resolve(k, text_lower, Search(text_lower, patterns[k]), at)
             IN  IF r.raise
                 THEN [status |-> "raise", time |-> None, text |-> <<>>]
                 ELSE [status |-> "ok", time |-> r.time,
                       text |-> Strip(Sub(text_lower, patterns[k]))]

\* assistant.py 317: the call of parse_reminder_from_text at time `at`
Parse(at) ==
    /\ ppc = "call"
    /\ parse_now' = at
    /\ LET r == parse_reminder_from_text(text, at)
       IN  /\ remind_time' = r.time
           /\ reminder_text' = r.text
           /\ ppc' = IF r.status = "raise" THEN "raised" ELSE "parsed"
    /\ UNCHANGED <<shared_vars, arb_vars, rem_vars, text>>

\* a variant of Understood: every parse result is scheduled
Understood_Always(time, body) == TRUE

\* assistant.py 319: `if remind_time and reminder_text`
Understood(time, body) == time # None /\ body # <<>>

\* assistant.py 319-323: an understood request calls add_reminder with the
\* parsed pair (reminders.py 84-105: INSERT and commit, or a failure that is
\* answered with the could-not-create message), any other is answered with
\* the could-not-understand phrase without a call of the store
HandleReminder(fail) ==
    /\ ppc = "parsed"
    /\ IF Understood(remind_time, reminder_text)
       THEN /\ ppc' = "stored"
            /\ IF fail
               THEN UNCHANGED <<store_vars, lastrowid>>
               ELSE /\ view' = InsertRow(view, remind_time)
                    /\ db' = view'
                    /\ cursor_rows' = <<>>
                    /\ lastrowid' = Len(view) + 1
       ELSE /\ ppc' = "rejected"
            /\ UNCHANGED <<store_vars, lastrowid>>
    /\ UNCHANGED <<shared_vars, arb_vars, text, parse_now, remind_time,
                   reminder_text, rpc, rows, reminders, due_reminders, spc,
                   failures, returned, poll_due, poll_result, poll_ok,
                   failed_batch, disturbed, streak, streak_first, acked>>

\* assistant.py 207-214: the ValueError of datetime.replace is caught nowhere
\* on its way out of _handle_reminder, _process_command, _main_loop and
\* start(), whose finally clause calls stop()
Unwind ==
    /\ ppc = "raised"
    /\ ppc' = "terminated"
    /\ running' = FALSE
    /\ UNCHANGED <<clock, arb_vars, rem_vars, text, parse_now, remind_time,
                   reminder_text>>

ParserNext ==
    \/ \E at \in Nows : Parse(at)
    \/ \E fail \in BOOLEAN : HandleReminder(fail)
    \/ Unwind

ParserInit ==
    /\ running = TRUE
    /\ clock = 0
    /\ SessionIdle
    /\ RemInit
    /\ text \in Texts \cup PhraseTexts
    /\ parse_now = 0
    /\ remind_time = None
    /\ reminder_text = <<>>
    /\ ppc = "call"

SpecParser == ParserInit /\ [][ParserNext]_vars

(***************************************************************************)
(* Properties of the reminder parser, checked under SpecParser             *)
(***************************************************************************)

\* C13: for every text the parser returns a time with text or (None, text)
\* and never raises, and a parse failure never ends the main loop.
C13_ParseNeverRaises ==
    /\ ppc # "raised"
    /\ ppc \in {"parsed", "stored", "rejected", "terminated"} => running

\* C14: a text with "zavtra v HH:MM" (valid HH:MM, no "cherez" rule matching,
\* no other "v HH:MM" before it) resolves to HH:MM of the next day whatever
\* the time of day, and the whole span "zavtra v HH:MM" is removed.
C14_TomorrowUnconditional ==
    LET low == LowerText(text)
        i == Search(low, ZavtraV)
    IN  (/\ ppc = "parsed"
         /\ i # 0
         /\ Search(low, CherezMinut) = 0
         /\ Search(low, CherezChasov) = 0
         /\ Search(low, VVremya) = i + 2
         /\ ValidClock(HourOf(low[i + 4]), MinuteOf(low[i + 4])))
        => /\ remind_time =
                Replace(parse_now, HourOf(low[i + 4]), MinuteOf(low[i + 4])) + Day
           /\ reminder_text = Strip(Sub(low, ZavtraV))

\* C15: when the rule "v HH:MM" is the one applied to a text (no "cherez" rule
\* matches, HH:MM is a clock time), the result is the earliest instant with
\* clock time HH:MM that is not before now: today if that is not in the past,
\* else tomorrow.
C15_AtTimeRollsOver ==
    LET low == LowerText(text)
        i == Search(low, VVremya)
    IN  (/\ ppc = "parsed"
         /\ i # 0
         /\ Search(low, CherezMinut) = 0
         /\ Search(low, CherezChasov) = 0
         /\ ValidClock(HourOf(low[i + 2]), MinuteOf(low[i + 2])))
        => /\ remind_time >= parse_now
           /\ remind_time - Day < parse_now
           /\ remind_time % Day =
                Hours(HourOf(low[i + 2])) + Minutes(MinuteOf(low[i + 2]))
           /\ remind_time % 2 = 0

\* C15 witness: "napomni v 9:00 Kupit" parsed at 09:00:30 went to tomorrow 09:00
C15_Witness ==
    /\ ppc = "parsed"
    /\ text = Join(<<CommandWord, "v", "9:00", "Kupit">>)
    /\ parse_now = Hours(9) + 1
    /\ remind_time = Day + Hours(9)

\* the text without a leading command word
DropCommand(s) ==
    IF s # <<>> /\ Head(s) = CommandWord THEN Tail(s) ELSE s

\* C16: for "cherez N minut" the time is now + N minutes and the reminder
\* text is the body alone: neither the time expression nor the command word.
C16_InMinutesBodyAlone ==
    LET low == LowerText(text)
    IN  (ppc = "parsed" /\ Search(low, CherezMinut) # 0)
        => /\ remind_time =
                parse_now + Minutes(NumberOf(low[Search(low, CherezMinut) + 2]))
           /\ reminder_text = Strip(DropCommand(Strip(Sub(low, CherezMinut))))

\* C17: when a rule matched, the request is stored with a non-empty text, and
\* with the original phrase when removing the match left nothing.
C17_EmptyBodyFallsBack ==
    (ppc \in {"stored", "rejected"} /\ remind_time # None)
        => /\ ppc = "stored"
           /\ reminder_text # <<>>
           /\ (\E k \in 1..Len(patterns) :
                  /\ Search(LowerText(text), patterns[k]) # 0
                  /\ Strip(Sub(LowerText(text), patterns[k])) = <<>>)
              => reminder_text = text

(***************************************************************************)
(* Properties of add_reminder and of the two threads on the one store,     *)
(* checked under SpecReminders                                             *)
(***************************************************************************)

\* C18: a reminder for which add_reminder returned success is in the
\* committed table, at that moment and after any later crash and restart
\* (rows never leave the committed table, so the latest call stands for all).
C18_AckedIsDurable ==
    acked \subseteq Ids(db)

\* C20: the fetch-and-flip unit of check_reminders and the insert-and-commit
\* unit of add_reminder never overlap on the shared connection.
C20_UnitsMutuallyExclusive ==
    ~(rpc \in {"fetch", "update", "commit"} /\ spc = "commit")

(***************************************************************************)
(* Shutdown of the three loops                                             *)
(***************************************************************************)
\* C21: once a shutdown is requested (a signal, a KeyboardInterrupt, the
\* shutdown command) the foreground thread is on its way out: the poll loop
\* and the capture loop are left and no new arbitration round begins.
C21_NoNewCycleAfterShutdown ==
    shutdown_requested => main_pc \in ExitedPcs \cup {"after_wait", "loop"}

(***************************************************************************)
(* Debounce of the button                                                  *)
(***************************************************************************)
PendingPress == IF button_pressed THEN 1 ELSE 0

\* C22: button edges that fall within the debounce window of the edge before
\* them add no activation: there are never more 'button' activations than
\* bursts of edges, and one burst gives exactly one activation, returned or
\* still pending in the flag, for every debounce window length.
C22_OneActivationPerBurst ==
    /\ button_events <= bursts
    /\ bursts = 1 => button_events + PendingPress = 1

\* two edges within the window, and the one activation they gave was returned
C22_Witness ==
    /\ bursts = 1
    /\ bounced
    /\ button_events = 1
    /\ ~button_pressed
    /\ bounce_time = 1

(***************************************************************************)
(* Watcher threads                                                         *)
(***************************************************************************)
\* C23: the watcher a round started is stopped when wait_for_activation
\* returns: at most one watcher thread is alive at any time and none is alive
\* outside an arbitration round.
C23_WatcherEndsWithRound ==
    /\ WatchersAlive <= 1
    /\ main_pc \notin PollPcs => WatchersAlive = 0

(***************************************************************************)
(* SpecCapture: the session loop with both activation methods disabled     *)
(* (wait_for_activation returns 'auto' at once), so that every round is a  *)
(* capture session.                                                        *)
(***************************************************************************)
CaptureNext ==
    \/ StartLoop
    \/ \E t \in Timeouts : WaitEntry(t)
    \/ \E who \in {"w", "l"} : AudioCallback(who)
    \/ AfterWait
    \/ \E opened \in BOOLEAN, budget \in Budgets : ListenEntry(opened, budget)
    \/ \E frame \in ListenFrames, final_text \in BOOLEAN : ListenGet(frame, final_text)
    \/ \E sane \in BOOLEAN : AfterListen(sane)
    \/ \E cmd \in Commands : ProcessCommand(cmd)
    \/ ShutdownSignal
    \/ KeyboardInterrupt

CaptureInit ==
    /\ Init
    /\ ~gpio_enabled
    /\ ~wake_word_enabled

SpecCapture == CaptureInit /\ [][CaptureNext]_vars

(***************************************************************************)
(* The capture loop's frame budget and silence counter                     *)
(***************************************************************************)
\* the frames a session given the budget max_chunks may consume: the budget,
\* and at least one frame
FrameLimit(budget) == IF budget < 1 THEN 1 ELSE budget

\* C24: a session that was given a frame budget (a non-null maximum duration,
\* budgets that truncate to 0 included) is over once it consumed the budget,
\* and at least one frame: while the loop runs it consumed fewer frames.
C24_BudgetBoundsSession ==
    (main_pc = "listen_get" /\ max_chunks # None) =>
        recorded_chunks < FrameLimit(max_chunks)

SilentFrames == {"partial_empty", "final_empty"}

\* C25: a frame with partial text resets the silence counter to 0, a silent
\* frame (an empty partial, a final result without text) adds exactly 1 to
\* it, and no other frame and no other step of a running session changes it.
C25_SilenceCounter ==
    [][/\ (main_pc = "listen_get" /\ recorded_chunks' # recorded_chunks) =>
              \A frame \in ListenFrames, final_text \in BOOLEAN :
                  ListenGet(frame, final_text) =>
                      silence_chunks' = IF frame = "partial_text" THEN 0
                                        ELSE IF frame \in SilentFrames
                                        THEN silence_chunks + 1
                                        ELSE silence_chunks
       /\ (main_pc = "listen_get" /\ recorded_chunks' = recorded_chunks)
              => silence_chunks' = silence_chunks]_vars

\* a session still running after a silent frame, speech and a silent frame
C25_Witness ==
    /\ main_pc = "listen_get"
    /\ recorded_chunks = 3
    /\ silence_chunks = 1

(***************************************************************************)
(* Order of the termination tests                                          *)
(***************************************************************************)
\* C26: every frame is tested for final text first, then for the silence
\* limit, then for the frame budget.  A frame with final text ends the
\* session with that text at once, also when the same frame uses up the
\* budget; a frame that reaches the silence limit ends it by silence, also
\* when the same frame uses up the budget; the loop only goes on when no
\* test applies.
C26_TerminationOrder ==
    [][(main_pc = "listen_get" /\ recorded_chunks' # recorded_chunks) =>
       \A frame \in ListenFrames, final_text \in BOOLEAN :
          ListenGet(frame, final_text) =>
              /\ frame = "final_text" =>
                     /\ main_pc' = "after_listen"
                     /\ ended_by' = "final"
                     /\ user_text' = "text"
              /\ (frame \in SilentFrames /\ silence_chunks + 1 >= MaxSilence) =>
                     /\ main_pc' = "after_listen"
                     /\ ended_by' = "silence"
              /\ (frame \notin {"final_text", "error"}
                  /\ silence_chunks' < MaxSilence
                  /\ Truthy(max_chunks)
                  /\ recorded_chunks + 1 >= max_chunks) =>
                     /\ main_pc' = "after_listen"
                     /\ ended_by' = "budget"
              /\ main_pc' = "listen_get" =>
                     /\ frame \notin {"final_text", "error"}
                     /\ silence_chunks' < MaxSilence
                     /\ ~(Truthy(max_chunks) /\ recorded_chunks' >= max_chunks)]_vars

\* a frame with final text that is also the last frame of the budget
C26_Witness ==
    /\ main_pc = "after_listen"
    /\ ended_by = "final"
    /\ user_text = "text"
    /\ Truthy(max_chunks)
    /\ recorded_chunks = max_chunks

\* a silent frame that reaches the silence limit and the budget at once
C26_WitnessSilenceAtBudget ==
    /\ main_pc = "after_listen"
    /\ ended_by = "silence"
    /\ Truthy(max_chunks)
    /\ recorded_chunks = max_chunks
    /\ silence_chunks >= MaxSilence

(***************************************************************************)
(* The end of a session by silence                                         *)
(***************************************************************************)
\* C27: the frame with which the silence counter reaches the limit ends the
\* session: no further frame is consumed, the cumulative final result is
\* asked for once, and listen() returns its text when there is any and None
\* when there is none.
C27_SilenceEndsWithFinalResult ==
    [][(main_pc = "listen_get" /\ recorded_chunks' # recorded_chunks) =>
       \A frame \in ListenFrames, final_text \in BOOLEAN :
          (ListenGet(frame, final_text)
           /\ frame \in SilentFrames
           /\ silence_chunks' >= MaxSilence) =>
              /\ main_pc' = "after_listen"
              /\ ended_by' = "silence"
              /\ audio_queue' = <<>>
              /\ user_text' = IF final_text THEN "text" ELSE "None"]_vars

\* a session ended by silence whose final result holds the text heard before
C27_Witness ==
    /\ main_pc = "after_listen"
    /\ ended_by = "silence"
    /\ silence_chunks >= MaxSilence
    /\ recorded_chunks > MaxSilence
    /\ user_text = "text"

(***************************************************************************)
(* The wake-word watcher                                                   *)
(***************************************************************************)
\* C28: a watcher reports a match only for a final result whose text holds a
\* configured keyword, whatever the case of either; a partial result never
\* does.  The wake-word flag is set only by a watcher that matched, which
\* sets it once and ends.
C28_FlagOnlyOnFinalKeyword ==
    [][/\ watchers'["matched"] = watchers["matched"] + 1 =>
              \A r \in WatcherResults :
                  WatcherGet(r[1], r[2]) =>
                      /\ r[1] = "final"
                      /\ \E keyword \in Keywords :
                             Infix(LowerString(keyword), LowerString(r[2]))
       /\ (wake_word_detected' /\ ~wake_word_detected) =>
              /\ watchers["matched"] > 0
              /\ watchers' = [watchers EXCEPT !["matched"] = @ - 1]]_vars

\* the flag is set and the watcher that set it is gone
C28_Witness ==
    /\ wake_word_detected
    /\ WatchersAlive = 0
    /\ main_pc \in PollPcs

(***************************************************************************)
(* What a successful check_reminders call returns                          *)
(***************************************************************************)
\* the list holds its reminders by due time, earliest first
SortedByDue(table, list) ==
    \A m, n \in 1..Len(list) :
        (m < n /\ list[m] \in Ids(table) /\ list[n] \in Ids(table))
            => table[list[m]].due <= table[list[n]].due

\* C29: a successful check_reminders call returns the reminders that were due
\* and not notified when it was called, each once, by due time, and each of
\* them is notified in the store when the call returns.
C29_ReturnsDueAndMarks ==
    (rpc = "speak" /\ poll_ok) =>
        /\ \A i \in Range(poll_result) : i \in Ids(db) /\ db[i].notified
        /\ SortedByDue(db, poll_result)
        /\ ~disturbed => /\ Range(poll_result) = poll_due
                         /\ Len(poll_result) = Cardinality(poll_due)

\* C30: reminders with the same due time are returned in the order in which
\* they were added, the one with the smaller id first.
C30_TiesInInsertionOrder ==
    (rpc = "speak" /\ poll_ok) =>
        \A m, n \in 1..Len(poll_result) :
            (/\ m < n
             /\ poll_result[m] \in Ids(db)
             /\ poll_result[n] \in Ids(db)
             /\ db[poll_result[m]].due = db[poll_result[n]].due)
                => poll_result[m] < poll_result[n]

C32_FirstRuleDecides ==
    ppc = "parsed" =>
        LET s == LowerText(text)
            i == Search(s, CherezMinut)
            j == Search(s, CherezChasov)
        IN  /\ i # 0 =>
                /\ remind_time = parse_now + Minutes(NumberOf(s[i + 2]))
                /\ reminder_text = Strip(Sub(s, CherezMinut))
                /\ (Search(s, VVremya) # 0) = (Search(reminder_text, VVremya) # 0)
            /\ (i = 0 /\ j # 0) =>
                /\ remind_time = parse_now + Hours(NumberOf(s[j + 2]))
                /\ reminder_text = Strip(Sub(s, CherezChasov))
                /\ (Search(s, VVremya) # 0) = (Search(reminder_text, VVremya) # 0)

\* "v 9:00 cherez 10 minut": both fragments, the later rule's one first
C32_Witness ==
    /\ ppc = "parsed"
    /\ text = Join(<<"v", "9:00", "cherez", "10", "minut">>)
    /\ remind_time = parse_now + Minutes(10)
    /\ reminder_text = <<"v", Space, "9:00">>

\* no time rule matches the text
NoRule(txt) ==
    LET s == LowerText(txt)
    IN  \A k \in 1..Len(patterns) : Search(s, patterns[k]) = 0

\* the request was answered with the could-not-understand result and the
\* store is as it was: no record inserted, no flag changed, no statement run
Untouched ==
    /\ ppc \in {"parsed", "rejected"}
    /\ remind_time = None /\ reminder_text = text
    /\ db = <<>> /\ view = <<>> /\ lastrowid = 0

\* C33: when no time rule matches the command text the request is answered
\* with the could-not-understand result and the reminder store is left as it
\* was: no record inserted, no notified flag changed.  Stated as: once the
\* parser was called, either that is the case or some rule matches the text.
C33_NoRuleLeavesStore ==
    ppc # "call" => (Untouched \/ ~NoRule(text))

\* a request without a time fragment has been answered
C33_Witness == ppc = "rejected" /\ NoRule(text) /\ text = Join(<<CommandWord, "Kupit">>)

\* an understood request did reach the store
C33_WitnessStored == ppc = "stored" /\ Len(db) = 1 /\ db[1].due = remind_time

(***************************************************************************)
(* The indicator, checked under SpecLed                                    *)
(***************************************************************************)
\* C34: set_led_state never raises to its caller and never blocks it, for
\* every LED state and every GPIO failure: no call ends by an exception, the
\* loop is left by an exception only while a command is processed, and a call
\* that starts a blink thread returns (the caller moves on) before the thread
\* has written the pin.
C34_IndicatorNeverFails ==
    [][/\ led_outcome' # "raised"
       /\ main_pc' = "crashed" => main_pc = "process"
       /\ BlinkersAlive' > BlinkersAlive =>
            /\ led_level' = led_level
            /\ main_pc' # main_pc
            /\ blinkers'[Writes(led_state')] = blinkers[Writes(led_state')] + 1]_vars

\* the GPIO failed in set_led_state('listening') and the capture session runs
C34_Witness ==
    /\ led_outcome = "logged"
    /\ led_state = "listening"
    /\ main_pc = "listen_get"
    /\ activation_type = "button"

\* where _main_loop is between the start of listen() and its own return
SessionPcs == {"listen_entry", "listen_get", "after_listen", "process"}

\* C39: in _main_loop a 'timeout' or 'interrupted' activation result starts no
\* capture session, and every path that started one (no speech, empty
\* sanitized text, processed command) has called set_led_state('off') when
\* the loop comes back for the next arbitration round.
C39_SessionEndsWithOff ==
    [][/\ (main_pc = "after_wait" /\ activation_type \in {"timeout", "interrupted"})
            => main_pc' \in {"after_wait", "loop"} \cup ExitedPcs
       /\ (main_pc \in SessionPcs /\ main_pc' \notin SessionPcs \cup ExitedPcs)
            => (main_pc' = "loop" /\ led_state' = "off")]_vars

\* a session ended and the next round is about to begin
C39_Witness ==
    /\ main_pc = "wait_entry"
    /\ led_state = "off"
    /\ led_outcome = "written"
    /\ led_level = "LOW"

\* a round ended without an activation
C39_WitnessNoSession ==
    /\ main_pc = "loop"
    /\ led_state = "waiting"
    /\ running

\* C40: after set_led_state('processing') or set_led_state('off') returned,
\* the LED pin keeps the level the call wrote until the next set_led_state
\* call.
C40_LevelHeld ==
    (Alive /\ led_outcome = "written" /\ led_state \in {"processing", "off"})
        => led_level = Level(led_state)

(***************************************************************************)
(* Flags at the start of an arbitration round, checked under Spec          *)
(***************************************************************************)
\* C35: both flags are clear when an arbitration round starts, so that every
\* activation a round returns was triggered during that round.
C35_FlagsClearAtRoundStart ==
    [][(main_pc = "wait_entry" /\ main_pc' \in PollPcs)
          => (~button_pressed' /\ ~wake_word_detected')]_vars

(***************************************************************************)
(* Notified reminders, checked under SpecReminders                         *)
(***************************************************************************)
\* C36: every reminder whose notified flag is durably true in the store was
\* returned to a caller by some check_reminders call.
\* where the reminder thread is inside a check_reminders call
CheckPcs == {"select", "fetch", "update", "commit"}

C36_NotifiedWasReturned ==
    \A i \in Ids(db) :
        db[i].notified =>
            \/ returned[i] > 0
            \/ rpc \in CheckPcs /\ i \in Range(reminders)

(***************************************************************************)
(* A round whose watcher is gone, checked under Spec                       *)
(***************************************************************************)
\* a round without timeout polls with the wake word as the only activation
\* method, every watcher thread has exited and no match is recorded
HungRound ==
    /\ main_pc \in PollPcs
    /\ timeout = None
    /\ ~gpio_enabled
    /\ wake_word_enabled
    /\ WatchersAlive = 0
    /\ ~wake_word_detected

\* C37: in a round with timeout None and the wake word as the only enabled
\* method, once the watcher thread has exited without a match no watcher is
\* started again and wait_for_activation does not return: the round goes on
\* polling until the process is cancelled.
C37_RoundHangsWithoutWatcher ==
    [][HungRound =>
          \/ HungRound'
          \/ main_pc' \in ExitedPcs
          \/ (main_pc' = "after_wait" /\ activation_type' = "interrupted")]_vars

\* the watcher met a source error and the round has been polling since
C37_Witness == HungRound /\ has_keywords /\ slept /\ elapsed > 0

\* the keyword list is empty and the round has been polling since
C37_WitnessNoKeywords == HungRound /\ ~has_keywords /\ slept /\ elapsed > 0

(***************************************************************************)
(* The capture loop's counters, checked under SpecCapture                  *)
(***************************************************************************)
\* C38: at every iteration of the capture loop 0 <= silence_chunks <=
\* max_silence_chunks and, when a frame budget is set, recorded_chunks <=
\* max_chunks; the loop is left through break only when silence_chunks >=
\* max_silence_chunks or recorded_chunks >= max_chunks.
C38_LoopCounters ==
    /\ main_pc = "listen_get" =>
          /\ 0 <= silence_chunks /\ silence_chunks <= MaxSilence
          /\ max_chunks # None => recorded_chunks <= max_chunks
    /\ ended_by = "silence" => silence_chunks >= MaxSilence
    /\ ended_by = "budget" => (max_chunks # None /\ recorded_chunks >= max_chunks)

====
